---- MODULE Spec2Model ----
(***************************************************************************)
(* Model of generate_pdf.py: the script that reads the project version     *)
(* from the Doxyfile, runs doxygen and make, renames latex/refman.pdf to   *)
(* EasyCLI-v<version>.pdf in the root and removes latex/ and html/.        *)
(*                                                                         *)
(* Text is a sequence of one-character strings, so that str.split,         *)
(* str.strip, str.replace and the `in` test are computed, not assumed.     *)
(* The file system is the part of the project root the script touches.     *)
(* The header of the script assumes doxygen, make and rm are installed,    *)
(* so launching a tool never fails; what a tool does, and its exit status  *)
(* (which the script discards), is nondeterministic.                       *)
(***************************************************************************)
EXTENDS Naturals, Sequences, FiniteSets

VARIABLES
    pc,         \* the statement about to run
    exc,        \* the uncaught exception that ended the run, or "None"
    doxyfile,   \* ./Doxyfile: whether it exists, and its lines
    f,          \* the file iterator: number of lines already read
    version,    \* the script's variable `version`
    cwd,        \* the working directory, as a path below the project root
    fs,         \* the file system: latex/, html/, latex/refman.pdf, root PDFs
    fs0,        \* history: the file system when the run started
    steps,      \* history: the steps attempted so far, in order
    failed      \* history: the external tools that exited with a failure

vars == <<pc, exc, doxyfile, f, version, cwd, fs, fs0, steps, failed>>

\* ------------------------------------------------------------------ bounds

\* The longest Doxyfile considered, in lines.
MaxLines == 2

\* ------------------------------------------------------------ text helpers

\* Python's whitespace, as str.strip() with no argument removes it.
Whitespace == {" ", "\t", "\n", "\r", "\f"}

\* `sub in s` for strings.
Contains(sub, s) ==
    \E i \in 0..Len(s) :
        i + Len(sub) <= Len(s) /\ SubSeq(s, i + 1, i + Len(sub)) = sub

\* The index of the first occurrence of the character c in s, 0 when absent.
Find(s, c) ==
    IF \E i \in 1..Len(s) : s[i] = c
    THEN CHOOSE i \in 1..Len(s) : s[i] = c /\ \A j \in 1..(i - 1) : s[j] # c
    ELSE 0

\* s.split(c) for a one-character separator: every piece between separators.
RECURSIVE Split(_, _)
Split(s, c) ==
    IF Find(s, c) = 0
    THEN <<s>>
    ELSE <<SubSeq(s, 1, Find(s, c) - 1)>>
         \o Split(SubSeq(s, Find(s, c) + 1, Len(s)), c)

RECURSIVE LStrip(_)
LStrip(s) ==
    IF s # <<>> /\ Head(s) \in Whitespace THEN LStrip(Tail(s)) ELSE s

RECURSIVE RStrip(_)
RStrip(s) ==
    IF s # <<>> /\ s[Len(s)] \in Whitespace
    THEN RStrip(SubSeq(s, 1, Len(s) - 1))
    ELSE s

\* s.strip()
Strip(s) == RStrip(LStrip(s))

\* s.replace(old, new) for a one-character old and any text new.
RECURSIVE Replace(_, _, _)
Replace(s, old, new) ==
    IF s = <<>> THEN <<>>
    ELSE (IF Head(s) = old THEN new ELSE <<Head(s)>>)
         \o Replace(Tail(s), old, new)

\* ------------------------------------------------------- the version scan

Key == <<"P", "R", "O", "J", "E", "C", "T", "_", "N", "U", "M", "B", "E", "R">>

\* A weakened test that forgets the key: any line with an equals sign.
AnyAssignmentLine(line) == Contains(<<"=">>, line)

\* "PROJECT_NUMBER" in line and "=" in line
IsProjectNumberLine(line) == Contains(Key, line) /\ Contains(<<"=">>, line)

\* line.split("=")[1].strip().replace('"', "").replace(".", "-")
ExtractVersion(line) ==
    Replace(Replace(Strip(Split(line, "=")[2]), "\"", <<>>), ".", <<"-">>)

\* --------------------------------------------------------- the file names

\* The f-string with the braces taken literally (a missing f prefix).
DestNameLiteral(v) ==
    <<"E", "a", "s", "y", "C", "L", "I", "-", "v", "{", "v", "e", "r", "s",
      "i", "o", "n", "}", ".", "p", "d", "f">>

\* The file name of f"../EasyCLI-v{version}.pdf"
DestName(v) ==
    <<"E", "a", "s", "y", "C", "L", "I", "-", "v">> \o v \o <<".", "p", "d", "f">>

\* The directory that ".." names from the directory p; above the root it is
\* the path <<"..">>, which is not part of the modelled file system.
Parent(p) == IF p = <<>> THEN <<"..">> ELSE SubSeq(p, 1, Len(p) - 1)

Root == <<>>
LatexDir == <<"latex">>

\* ------------------------------------------------------------- the inputs

\* The Doxyfile as the run finds it: absent, or present with its lines.
NoFile == [exists |-> FALSE, lines |-> <<>>]

\* What follows the optional key on a line.
Bodies ==
    { <<" ", "=", " ", "\"", "1", ".", "2", "\"">>,     \*  = "1.2"
      <<"=", "\"", "2", ".", "1", "\"">>,               \* ="2.1"
      <<" ", "=", " ", "1", ".", "2", "=", "3">>,       \*  = 1.2=3
      <<"=">>,                                          \* =
      <<" ", "1">> }                                    \*  1

\* The lines a Doxyfile is made of, each with its line end.
Lines == { lead \o body \o <<"\n">> : lead \in {<<>>, Key}, body \in Bodies }

RECURSIVE SeqsUpTo(_, _)
SeqsUpTo(S, n) ==
    IF n = 0 THEN {<<>>}
    ELSE SeqsUpTo(S, n - 1)
         \cup { Append(s, x) : s \in { t \in SeqsUpTo(S, n - 1) : Len(t) = n - 1 }, x \in S }

Files == { [exists |-> TRUE, lines |-> ls] : ls \in SeqsUpTo(Lines, MaxLines) }

\* PDFs a former run may have left in the root.
OldPdfs == { DestName(<<>>), DestName(<<"1", "-", "2">>) }

FileSystems ==
    { x \in [latex : BOOLEAN, html : BOOLEAN, refman : BOOLEAN, pdfs : SUBSET OldPdfs] :
        x.refman => x.latex }

Tools == {"doxygen", "make"}

\* ------------------------------------------------------------ the program

Init ==
    /\ pc = "open"
    /\ exc = "None"
    /\ doxyfile \in Files \cup {NoFile}
    /\ f = 0
    /\ version = <<>>
    /\ cwd = Root
    /\ fs \in FileSystems
    /\ fs0 = fs
    /\ steps = <<>>
    /\ failed = {}

Running(at) == pc = at /\ exc = "None"

\* A missing Doxyfile read as an empty one.
OpenTolerant ==
    /\ Running("open")
    /\ pc' = IF ~doxyfile.exists THEN "doxygen" ELSE "for"
    /\ steps' = Append(steps, "scan")
    /\ UNCHANGED <<exc, doxyfile, f, version, cwd, fs, fs0, failed>>

\* with open("Doxyfile", "r") as f:
Open ==
    /\ Running("open")
    /\ steps' = Append(steps, "scan")
    /\ \/ /\ ~doxyfile.exists
          /\ exc' = "FileNotFoundError"
          /\ UNCHANGED pc
       \/ /\ doxyfile.exists
          /\ pc' = "for"
          /\ UNCHANGED exc
    /\ UNCHANGED <<doxyfile, f, version, cwd, fs, fs0, failed>>

\* The matching line assigns the version and the loop goes on reading.
ForMatchNoBreak ==
    /\ Running("for")
    /\ f < Len(doxyfile.lines)
    /\ IsProjectNumberLine(doxyfile.lines[f + 1])
    /\ f' = f + 1
    /\ version' = ExtractVersion(doxyfile.lines[f + 1])
    /\ UNCHANGED <<pc, exc, doxyfile, cwd, fs, fs0, steps, failed>>

\* for line in f: the line matches; assign the version and break.
ForMatch ==
    /\ Running("for")
    /\ f < Len(doxyfile.lines)
    /\ IsProjectNumberLine(doxyfile.lines[f + 1])
    /\ f' = f + 1
    /\ version' = ExtractVersion(doxyfile.lines[f + 1])
    /\ pc' = "doxygen"
    /\ UNCHANGED <<exc, doxyfile, cwd, fs, fs0, steps, failed>>

\* for line in f: the line does not match; read on.
ForSkip ==
    /\ Running("for")
    /\ f < Len(doxyfile.lines)
    /\ ~IsProjectNumberLine(doxyfile.lines[f + 1])
    /\ f' = f + 1
    /\ UNCHANGED <<pc, exc, doxyfile, version, cwd, fs, fs0, steps, failed>>

\* for line in f: the file is exhausted.
ForEnd ==
    /\ Running("for")
    /\ f = Len(doxyfile.lines)
    /\ pc' = "doxygen"
    /\ UNCHANGED <<exc, doxyfile, f, version, cwd, fs, fs0, steps, failed>>

\* subprocess.run(..., check=True): a failing doxygen raises.
DoxygenChecked ==
    /\ Running("doxygen")
    /\ steps' = Append(steps, "doxygen")
    /\ \E latex \in {fs.latex, TRUE}, html \in {fs.html, TRUE} :
          fs' = [fs EXCEPT !.latex = latex, !.html = html]
    /\ \/ /\ failed' = failed \cup {"doxygen"}
          /\ exc' = "CalledProcessError"
          /\ UNCHANGED pc
       \/ /\ pc' = "chdir_latex"
          /\ UNCHANGED <<exc, failed>>
    /\ UNCHANGED <<doxyfile, f, version, cwd, fs0>>

\* subprocess.run(["doxygen", "Doxyfile"]): doxygen may or may not write
\* latex/ and html/, and its exit status is discarded.
Doxygen ==
    /\ Running("doxygen")
    /\ steps' = Append(steps, "doxygen")
    /\ \E latex \in {fs.latex, TRUE}, html \in {fs.html, TRUE} :
          fs' = [fs EXCEPT !.latex = latex, !.html = html]
    /\ \E rc \in {0, 1} :
          failed' = IF rc = 0 THEN failed ELSE failed \cup {"doxygen"}
    /\ pc' = "chdir_latex"
    /\ UNCHANGED <<exc, doxyfile, f, version, cwd, fs0>>

\* os.chdir("latex")
ChdirLatex ==
    /\ Running("chdir_latex")
    /\ steps' = Append(steps, "chdir_latex")
    /\ \/ /\ cwd = Root /\ fs.latex
          /\ cwd' = Append(cwd, "latex")
          /\ pc' = "make"
          /\ UNCHANGED exc
       \/ /\ ~(cwd = Root /\ fs.latex)
          /\ exc' = "FileNotFoundError"
          /\ UNCHANGED <<pc, cwd>>
    /\ UNCHANGED <<doxyfile, f, version, fs, fs0, failed>>

\* The rename left out: the run goes from make straight to the way back.
MakeThenCleanup ==
    /\ Running("make")
    /\ steps' = Append(steps, "make")
    /\ \E pdf \in BOOLEAN :
          fs' = [fs EXCEPT !.refman = IF cwd = LatexDir THEN pdf ELSE @]
    /\ pc' = "chdir_root"
    /\ UNCHANGED <<exc, doxyfile, f, version, cwd, fs0, failed>>

\* subprocess.run(["make", "pdf"]): in latex/ the build may leave, write or
\* remove refman.pdf, and its exit status is discarded.
Make ==
    /\ Running("make")
    /\ steps' = Append(steps, "make")
    /\ \E pdf \in BOOLEAN :
          fs' = [fs EXCEPT !.refman = IF cwd = LatexDir THEN pdf ELSE @]
    /\ \E rc \in {0, 1} :
          failed' = IF rc = 0 THEN failed ELSE failed \cup {"make"}
    /\ pc' = "rename"
    /\ UNCHANGED <<exc, doxyfile, f, version, cwd, fs0>>

\* The source of the rename: refman.pdf in the working directory.
SourceExists == cwd = LatexDir /\ fs.latex /\ fs.refman

\* A rename that lets a missing source pass.
RenameTolerant ==
    /\ Running("rename")
    /\ steps' = Append(steps, "rename")
    /\ fs' = IF SourceExists /\ Parent(cwd) = Root
             THEN [fs EXCEPT !.refman = FALSE, !.pdfs = @ \cup {DestName(version)}]
             ELSE fs
    /\ pc' = "chdir_root"
    /\ UNCHANGED <<exc, doxyfile, f, version, cwd, fs0, failed>>

\* os.rename("refman.pdf", f"../EasyCLI-v{version}.pdf")
Rename ==
    /\ Running("rename")
    /\ steps' = Append(steps, "rename")
    /\ \/ /\ SourceExists
          /\ fs' = [fs EXCEPT !.refman = FALSE,
                              !.pdfs = IF Parent(cwd) = Root
                                       THEN @ \cup {DestName(version)}
                                       ELSE @]
          /\ pc' = "chdir_root"
          /\ UNCHANGED exc
       \/ /\ ~SourceExists
          /\ exc' = "FileNotFoundError"
          /\ UNCHANGED <<pc, fs>>
    /\ UNCHANGED <<doxyfile, f, version, cwd, fs0, failed>>

\* The way back left out: os.chdir(".") keeps the working directory.
ChdirStay ==
    /\ Running("chdir_root")
    /\ steps' = Append(steps, "chdir_root")
    /\ pc' = "rm_latex"
    /\ UNCHANGED <<exc, doxyfile, f, version, cwd, fs, fs0, failed>>

\* os.chdir("..")
ChdirRoot ==
    /\ Running("chdir_root")
    /\ steps' = Append(steps, "chdir_root")
    /\ cwd' = Parent(cwd)
    /\ pc' = "rm_latex"
    /\ UNCHANGED <<exc, doxyfile, f, version, fs, fs0, failed>>

\* subprocess.run(["rm", "-rf", "latex"])
RmLatex ==
    /\ Running("rm_latex")
    /\ steps' = Append(steps, "rm_latex")
    /\ fs' = IF cwd = Root THEN [fs EXCEPT !.latex = FALSE, !.refman = FALSE] ELSE fs
    /\ pc' = "rm_html"
    /\ UNCHANGED <<exc, doxyfile, f, version, cwd, fs0, failed>>

\* A plain rm, which leaves the directory in place.
RmHtmlNotRecursive ==
    /\ Running("rm_html")
    /\ steps' = Append(steps, "rm_html")
    /\ pc' = "exit"
    /\ UNCHANGED <<exc, doxyfile, f, version, cwd, fs, fs0, failed>>

\* subprocess.run(["rm", "-rf", "html"])
RmHtml ==
    /\ Running("rm_html")
    /\ steps' = Append(steps, "rm_html")
    /\ fs' = IF cwd = Root THEN [fs EXCEPT !.html = FALSE] ELSE fs
    /\ pc' = "exit"
    /\ UNCHANGED <<exc, doxyfile, f, version, cwd, fs0, failed>>

Next ==
    \/ Open
    \/ ForMatch
    \/ ForSkip
    \/ ForEnd
    \/ Doxygen
    \/ ChdirLatex
    \/ Make
    \/ Rename
    \/ ChdirRoot
    \/ RmLatex
    \/ RmHtml

Spec == Init /\ [][Next]_vars

\* ------------------------------------------------------------------ types

Statements ==
    {"open", "for", "doxygen", "chdir_latex", "make", "rename", "chdir_root",
     "rm_latex", "rm_html", "exit"}

TypeOK ==
    /\ pc \in Statements
    /\ exc \in {"None", "FileNotFoundError"}
    /\ doxyfile \in Files \cup {NoFile}
    /\ f \in 0..MaxLines
    /\ cwd \in {Root, LatexDir}
    /\ fs.refman => fs.latex
    /\ failed \subseteq Tools

\* ------------------------------------------------- the claims' vocabulary

\* What the claims say independently of the program text above.

\* The line holds the key and an equals sign.
HasKeyAndEquals(line) ==
    /\ \E i \in 1..Len(line) : line[i] = "="
    /\ \E i \in 1..Len(line) :
          i + Len(Key) - 1 <= Len(line) /\ SubSeq(line, i, i + Len(Key) - 1) = Key

AnyMatching == \E i \in 1..Len(doxyfile.lines) : HasKeyAndEquals(doxyfile.lines[i])

\* The number of the first line holding the key and an equals sign.
FirstMatching ==
    CHOOSE i \in 1..Len(doxyfile.lines) :
        /\ HasKeyAndEquals(doxyfile.lines[i])
        /\ \A j \in 1..(i - 1) : ~HasKeyAndEquals(doxyfile.lines[j])

\* The whole text to the right of the first equals sign of the line.
AfterFirstEquals(line) ==
    LET i == CHOOSE k \in 1..Len(line) :
                 line[k] = "=" /\ \A j \in 1..(k - 1) : line[j] # "="
    IN  SubSeq(line, i + 1, Len(line))

\* Whitespace stripped, quotes removed, periods turned into hyphens.
Normalized(text) == Replace(Replace(Strip(text), "\"", <<>>), ".", <<"-">>)

\* EasyCLI-v<token>.pdf
ExpectedPdf(token) ==
    <<"E", "a", "s", "y", "C", "L", "I", "-", "v">> \o token \o <<".", "p", "d", "f">>

\* The scan is over and the run went on.
ScanDone == pc \notin {"open", "for"}

Range(s) == {s[i] : i \in 1..Len(s)}

Attempted(step) == step \in Range(steps)

Failed == exc # "None"

RenameSucceeded == Attempted("rename") /\ pc # "rename"

\* The fixed order of the steps.
Order ==
    <<"scan", "doxygen", "chdir_latex", "make", "rename", "chdir_root",
      "rm_latex", "rm_html">>

IsPrefix(s, t) == Len(s) <= Len(t) /\ SubSeq(t, 1, Len(s)) = s

\* ------------------------------------------------------------------- C1

\* C1, as claimed: once the scan has stopped at the first line holding the
\* key and an equals sign, the token is the whole text to the right of that
\* line's first equals sign, stripped, without quotes, periods as hyphens.
\* The code takes split("=")[1], the text between the first and the second
\* equals sign, so a line with two equals signs refutes it.
ClaimC1_TokenIsTextAfterFirstEquals ==
    (doxyfile.exists /\ ScanDone /\ AnyMatching)
        => version = Normalized(AfterFirstEquals(doxyfile.lines[FirstMatching]))

\* ------------------------------------------------------------------- C2

\* C2: with several lines holding the key and an equals sign, the token is
\* the one of the first such line in file order and the scan stops there:
\* no line after it is read, so no later line has a say.
C2_FirstMatchingLineDecides ==
    (doxyfile.exists /\ ScanDone /\ AnyMatching)
        => /\ version = ExtractVersion(doxyfile.lines[FirstMatching])
           /\ f = FirstMatching

\* A later line would have given another token, and the scan is over.
C2_Witness ==
    /\ doxyfile.exists /\ ScanDone /\ AnyMatching
    /\ \E i \in (FirstMatching + 1)..Len(doxyfile.lines) :
          /\ HasKeyAndEquals(doxyfile.lines[i])
          /\ ExtractVersion(doxyfile.lines[i]) # version

\* ------------------------------------------------------------------- C3

\* C3: when no line holds both the key and an equals sign, the scan never
\* fails, it ends with the empty token, and a rename that succeeds adds
\* exactly EasyCLI-v.pdf to the original working directory.
C3_NoMatchGivesEmptyToken ==
    (doxyfile.exists /\ ~AnyMatching)
        => /\ ~ScanDone => ~Failed
           /\ ScanDone => version = <<>>
           /\ RenameSucceeded =>
                fs.pdfs = fs0.pdfs \cup
                    {<<"E", "a", "s", "y", "C", "L", "I", "-", "v", ".", "p", "d", "f">>}

\* A file with a key-only line and an equals-only line, renamed to the end.
C3_Witness ==
    /\ doxyfile.exists /\ ~AnyMatching /\ RenameSucceeded
    /\ fs0.pdfs = {}
    /\ \E i \in 1..Len(doxyfile.lines) : Contains(Key, doxyfile.lines[i])
    /\ \E i \in 1..Len(doxyfile.lines) : Contains(<<"=">>, doxyfile.lines[i])

\* ------------------------------------------------------------------- C4

\* C4: a rename step that finds no refman.pdf in latex ends the run there
\* with a file-not-found failure: the working directory and the file system
\* stay as they are, and no step is ever taken after a failure.
C4_MissingPdfStopsAtRename ==
    [][ /\ ~Failed
        /\ (pc = "rename" /\ ~fs.refman)
              => /\ exc' = "FileNotFoundError"
                 /\ pc' = "rename"
                 /\ cwd' = cwd
                 /\ fs' = fs
                 /\ steps' = Append(steps, "rename") ]_vars

\* The run failed at the rename with both directories left in place.
C4_Witness ==
    /\ pc = "rename" /\ exc = "FileNotFoundError"
    /\ cwd = LatexDir /\ fs.latex /\ fs.html /\ ~fs.refman

\* ------------------------------------------------------------------- C5

\* C5, as claimed: a run that reaches the end leaves no latex, no html and
\* no refman.pdf, and exactly one PDF that was not there at the start,
\* EasyCLI-v<token>.pdf.
ClaimC5_ExactlyOneNewPdf ==
    pc = "exit"
        => /\ ~fs.latex /\ ~fs.html /\ ~fs.refman
           /\ fs.pdfs \ fs0.pdfs = {ExpectedPdf(version)}

\* C5, amended: a run that reaches the end leaves no latex, no html and no
\* refman.pdf; EasyCLI-v<token>.pdf exists in the original working directory
\* and is the only PDF that can be new: it is new unless a file of that name
\* was there at the start, which the rename replaces.
C5_SuccessfulRunLeavesThePdf ==
    pc = "exit"
        => /\ ~fs.latex /\ ~fs.html /\ ~fs.refman
           /\ fs.pdfs = fs0.pdfs \cup {ExpectedPdf(version)}

\* A run that ended with a PDF that is new, after both directories existed.
C5_Witness ==
    /\ pc = "exit" /\ version # <<>>
    /\ ExpectedPdf(version) \notin fs0.pdfs
    /\ fs0.latex /\ fs0.html

\* ------------------------------------------------------------------- C6

\* C6, as claimed: after the scan the run can end with a failure at the
\* rename step only.
ClaimC6_OnlyRenameCanFail ==
    (ScanDone /\ Failed) => pc = "rename"

\* C6, amended: a failing doxygen or make never ends the run by itself, the
\* step after it is always attempted. After the scan the run can end with a
\* failure at the change into latex, when doxygen left no latex directory
\* (the build tool and the rename are then not attempted), or at the rename,
\* when refman.pdf is missing, and nowhere else.
C6_ToolFailureNeverHalts ==
    /\ (ScanDone /\ Failed)
          => pc \in {"chdir_latex", "rename"} /\ exc = "FileNotFoundError"
    /\ (pc = "chdir_latex" /\ Failed)
          => ~fs.latex /\ ~Attempted("make") /\ ~Attempted("rename")
    /\ (pc = "rename" /\ Failed) => ~fs.refman
    /\ "doxygen" \in failed => Attempted("chdir_latex") \/ Running("chdir_latex")
    /\ "make" \in failed => Attempted("rename") \/ Running("rename")

\* Both tools failed and the run still went through to the end.
C6_Witness == failed = {"doxygen", "make"} /\ pc = "exit"

\* ------------------------------------------------------------------- C7

\* C7: without a Doxyfile the only step of the run is the failing open: no
\* tool runs, and the working directory, the file system and the token stay
\* as they are.
C7_MissingDoxyfileStopsAtOpen ==
    [][ ~doxyfile.exists
          => /\ pc = "open" /\ ~Failed
             /\ exc' = "FileNotFoundError"
             /\ pc' = "open"
             /\ cwd' = cwd /\ fs' = fs /\ version' = version /\ failed' = failed
             /\ steps' = <<"scan">> ]_vars

\* The run failed at the open with a latex directory of a former run.
C7_Witness ==
    /\ ~doxyfile.exists /\ pc = "open" /\ exc = "FileNotFoundError"
    /\ fs = fs0 /\ fs.latex

\* ------------------------------------------------------------------- C8

\* C8: the steps attempted so far are always an initial part of the fixed
\* order, each at most once, the step about to run is the next of the
\* order, and a deletion is attempted only after the rename succeeded.
C8_FixedOrder ==
    /\ IsPrefix(steps, Order)
    /\ (~Failed /\ pc \notin {"open", "for", "exit"}) => pc = Order[Len(steps) + 1]
    /\ (Attempted("rm_latex") \/ Attempted("rm_html")) => RenameSucceeded
    /\ pc = "exit" => steps = Order

\* All eight steps were taken.
C8_Witness == steps = Order /\ ~Failed

\* ------------------------------------------------------------------- C9

\* C9: the working directory is the root up to the change into latex, latex
\* from the build tool to the change back (so also after a failed rename),
\* and the root again during the deletions and at the end.
C9_WorkingDirectory ==
    /\ pc \in {"open", "for", "doxygen", "chdir_latex"} => cwd = Root
    /\ pc \in {"make", "rename", "chdir_root"} => cwd = LatexDir
    /\ pc \in {"rm_latex", "rm_html", "exit"} => cwd = Root

\* The run went into latex, came back and ended in the root.
C9_Witness ==
    /\ pc = "exit" /\ cwd = Root
    /\ Attempted("chdir_latex") /\ Attempted("chdir_root")

\* ------------------------------------------------------------------ C10

\* C10: the token changes at most once, at the matching line that ends the
\* scan, and never after the scan; the file the rename adds is named by
\* that token, whatever the tools did.
C10_TokenAssignedOnce ==
    [][ /\ version' # version
              => pc = "for" /\ version = <<>> /\ pc' = "doxygen"
        /\ ScanDone => version' = version
        /\ (pc = "rename" /\ pc' = "chdir_root")
              => fs'.pdfs = fs.pdfs \cup {ExpectedPdf(version)} ]_vars

\* A token was found, both tools failed, and the PDF carries the token.
C10_Witness ==
    /\ version # <<>> /\ failed = {"doxygen", "make"}
    /\ RenameSucceeded /\ ExpectedPdf(version) \in fs.pdfs \ fs0.pdfs

====
